---- MODULE Spec2Model ----
(***************************************************************************)
(* A model of the LSP client of mtnmts/toolchain                           *)
(* (lib/lsp-client/src/lib.rs): the LSPServer record, the child processes  *)
(* it spawns, and its operations start, stop, restart and initialize_lsp.  *)
(*                                                                         *)
(* Strings that reach the wire are sequences of bytes (0..255).  The       *)
(* operating system's side of a child (does it run, is it reaped, what     *)
(* was written to its stdin) lives in `children`; the outcome of every     *)
(* system call (spawn, kill, write, read) is an input of the action.       *)
(***************************************************************************)
EXTENDS Integers, Sequences, FiniteSets

\* How many children the operating system lets the server spawn in a run.
MaxChildren == 2
\* How many buffers are written to the stdin of one child in a run.
MaxFrames == 2
\* How many arguments the command line of the dispatcher holds at most.
MaxArgs == 3

VARIABLES
    language,   \* LSPServer.language
    workspace,  \* LSPServer.workspace (bytes of the String)
    started,    \* LSPServer.started
    process,    \* LSPServer.process: <<>> is None, <<pid>> is Some(Child)
    children,   \* the children spawned so far, by pid (1..Len(children))
    pc,         \* "ready", or how the calling thread ended: "panicked", "blocked"
    last,       \* the call that was made last: [op, res, io]
    prev,       \* the call before it
    argv,       \* toolchain's main: env::args()
    called      \* toolchain's main: the function it called, with which args

vars == <<language, workspace, started, process, children, pc, last, prev,
          argv, called>>

(***************************************************************************)
(* Language and Language::program                                          *)
(***************************************************************************)
Language == {"Cpp", "C", "Python", "Rust"}

program(lang) ==
    CASE lang \in {"C", "Cpp"} -> "clangd"
      [] lang = "Rust"         -> "rls"
      [] lang = "Python"       -> "pyls"

(***************************************************************************)
(* The workspaces a server is created with: ".", "", "e-acute" (one char,  *)
(* two bytes of UTF-8), a"b (a byte JSON has to escape), and a long path   *)
(* with both, which takes the serialized request past 99 bytes.            *)
(***************************************************************************)
\* /home/d<e-acute>v/"lsp projects"/toolchain/lib/client
LongWorkspace ==
    <<47, 104, 111, 109, 101, 47, 100, 195, 169, 118, 47, 34, 108,
      115, 112, 32, 112, 114, 111, 106, 101, 99, 116, 115, 34, 47,
      116, 111, 111, 108, 99, 104, 97, 105, 110, 47, 108, 105, 98, 47,
      99, 108, 105, 101, 110, 116>>

Workspaces == { <<46>>, <<>>, <<195, 169>>, <<97, 34, 98>>, LongWorkspace }

(***************************************************************************)
(* LSPProtocol::initialize_request and its serialization.                  *)
(***************************************************************************)
initialize_request(root_dir) ==
    [ process_id             |-> <<>>,
      root_path              |-> <<root_dir>>,
      root_uri               |-> <<>>,
      initialization_options |-> <<>>,
      capabilities           |-> "default",
      trace                  |-> <<>>,
      workspace_folders      |-> <<>> ]

\* serde_json's string escaping, for the bytes the workspaces hold: the
\* quote, the backslash and the line feed; every other byte is copied.
RECURSIVE escape_json(_)
escape_json(s) ==
    IF s = <<>> THEN <<>>
    ELSE LET b == Head(s)
             e == IF b = 34 THEN <<92, 34>>
                  ELSE IF b = 92 THEN <<92, 92>>
                  ELSE IF b = 10 THEN <<92, 110>>
                  ELSE <<b>>
         IN  e \o escape_json(Tail(s))

\* serde_json::to_string(&request) for the request initialize_request builds:
\* {"processId":null,"rootPath":"<root>","rootUri":null,"capabilities":{}}
\* (the fields that are None and marked skip_serializing_if are left out).
to_string(request) ==
    <<123, 34, 112, 114, 111, 99, 101, 115, 115, 73, 100, 34, 58,
      110, 117, 108, 108, 44>>
    \o (IF request.root_path = <<>> THEN <<>>
        ELSE <<34, 114, 111, 111, 116, 80, 97, 116, 104, 34, 58, 34>>
             \o escape_json(request.root_path[1]) \o <<34, 44>>)
    \o <<34, 114, 111, 111, 116, 85, 114, 105, 34, 58, 110, 117, 108, 108, 44,
         34, 99, 97, 112, 97, 98, 105, 108, 105, 116, 105, 101, 115, 34, 58,
         123, 125, 125>>

\* format!("{}", n) of an unsigned integer: its decimal digits.
RECURSIVE to_decimal(_)
to_decimal(n) ==
    IF n < 10 THEN <<48 + n>>
    ELSE to_decimal(n \div 10) \o <<48 + (n % 10)>>

\* "Content-Length: "
ContentLengthPrefix ==
    <<67, 111, 110, 116, 101, 110, 116, 45, 76, 101, 110, 103, 116, 104, 58, 32>>

CRLF == <<13, 10>>

\* The number of chars of a UTF-8 string: its bytes that are not
\* continuation bytes.
char_count(s) == Cardinality({ i \in DOMAIN s : s[i] < 128 \/ s[i] > 191 })

\* The frame with the header counting chars (req_ser.chars().count()), not
\* bytes.
frame_counts_chars(req_ser) ==
    ContentLengthPrefix \o to_decimal(char_count(req_ser)) \o CRLF \o req_ser

\* format!("Content-Length: {}\r\n{}", req_ser.len(), req_ser)
frame(req_ser) ==
    ContentLengthPrefix \o to_decimal(Len(req_ser)) \o CRLF \o req_ser

(***************************************************************************)
(* The server record and the result of one call.                           *)
(***************************************************************************)
new(lang, ws) ==
    [language |-> lang, workspace |-> ws, started |-> FALSE, process |-> <<>>]

Self ==
    [language |-> language, workspace |-> workspace,
     started |-> started, process |-> process]

\* What a call leaves: the server, the children, the value returned, the
\* system calls made with their outcomes, and whether the thread goes on.
Ret(self, os, res, io) ==
    [self |-> self, os |-> os, res |-> res, io |-> io, pc |-> "ready"]

\* A Child value is dropped: its ChildStdin, ChildStdout and ChildStderr are
\* closed.  Dropping a Child neither kills nor waits for the process.
drop(os, proc) ==
    IF proc = <<>> THEN os
    ELSE [os EXCEPT ![proc[1]].piped = FALSE]

\* Command::new(prog).stdout(piped).stdin(piped).stderr(piped).spawn(), Ok
spawn(os, prog) ==
    Append(os, [program |-> prog, state |-> "running", piped |-> TRUE,
                stdin |-> <<>>])

\* Child::kill(), Ok: SIGKILL is sent; the process ends and stays a zombie
\* until it is waited for (kill does not wait).
kill(os, pid) ==
    [os EXCEPT ![pid].state = "zombie"]

(***************************************************************************)
(* LSPServer::started, process_mut                                         *)
(***************************************************************************)
is_started(self) ==
    IF self.started THEN "Ok" ELSE "NotRunning"

process_mut(self) ==
    IF self.process = <<>> THEN "InvalidProcess" ELSE "Ok"

(***************************************************************************)
(* LSPServer::start                                                        *)
(***************************************************************************)
\* start without `self.started = true`.
start_forgets_flag(self, os, spawnOk) ==
    IF self.started THEN Ret(self, os, "AlreadyStarted", <<>>)
    ELSE IF spawnOk
         THEN LET os1 == spawn(os, program(self.language))
              IN  Ret([self EXCEPT !.process = <<Len(os1)>>],
                      drop(os1, self.process), "Ok", <<"spawn_ok">>)
         ELSE Ret(self, os, "SpawnFailed", <<"spawn_err">>)

\* start without the `if self.started` check.
start_unchecked(self, os, spawnOk) ==
    IF spawnOk
    THEN LET os1 == spawn(os, program(self.language))
         IN  Ret([self EXCEPT !.started = TRUE, !.process = <<Len(os1)>>],
                 drop(os1, self.process), "Ok", <<"spawn_ok">>)
    ELSE Ret(self, os, "SpawnFailed", <<"spawn_err">>)

\* start with `self.started = true` set before the spawn is known to succeed.
start_marks_early(self, os, spawnOk) ==
    IF self.started THEN Ret(self, os, "AlreadyStarted", <<>>)
    ELSE IF spawnOk
         THEN LET os1 == spawn(os, program(self.language))
              IN  Ret([self EXCEPT !.started = TRUE, !.process = <<Len(os1)>>],
                      drop(os1, self.process), "Ok", <<"spawn_ok">>)
         ELSE Ret([self EXCEPT !.started = TRUE], os, "SpawnFailed",
                  <<"spawn_err">>)

\* start with the spawn made before the `if self.started` check: the child
\* spawned for a started server is dropped at the early return.
start_spawns_first(self, os, spawnOk) ==
    IF spawnOk
    THEN LET os1 == spawn(os, program(self.language))
         IN  IF self.started
             THEN Ret(self, drop(os1, <<Len(os1)>>), "AlreadyStarted", <<>>)
             ELSE Ret([self EXCEPT !.started = TRUE, !.process = <<Len(os1)>>],
                      drop(os1, self.process), "Ok", <<"spawn_ok">>)
    ELSE IF self.started THEN Ret(self, os, "AlreadyStarted", <<>>)
         ELSE Ret(self, os, "SpawnFailed", <<"spawn_err">>)

start(self, os, spawnOk) ==
    IF self.started THEN Ret(self, os, "AlreadyStarted", <<>>)
    ELSE IF spawnOk
         THEN LET os1 == spawn(os, program(self.language))
              IN  Ret([self EXCEPT !.started = TRUE, !.process = <<Len(os1)>>],
                      drop(os1, self.process), "Ok", <<"spawn_ok">>)
         ELSE Ret(self, os, "SpawnFailed", <<"spawn_err">>)

(***************************************************************************)
(* LSPServer::stop                                                         *)
(***************************************************************************)
\* stop without `self.started = false`.
stop_keeps_flag(self, os, killOk) ==
    IF is_started(self) # "Ok" THEN Ret(self, os, is_started(self), <<>>)
    ELSE IF process_mut(self) # "Ok" THEN Ret(self, os, process_mut(self), <<>>)
    ELSE IF ~killOk THEN Ret(self, os, "FailedToKill", <<"kill_err">>)
    ELSE Ret([self EXCEPT !.process = <<>>],
             drop(kill(os, self.process[1]), self.process),
             "Ok", <<"kill_ok">>)

\* stop with `self.started = false` set before the kill is known to succeed.
stop_resets_flag_first(self, os, killOk) ==
    IF is_started(self) # "Ok" THEN Ret(self, os, is_started(self), <<>>)
    ELSE IF process_mut(self) # "Ok" THEN Ret(self, os, process_mut(self), <<>>)
    ELSE IF ~killOk THEN Ret([self EXCEPT !.started = FALSE], os,
                             "FailedToKill", <<"kill_err">>)
    ELSE Ret([self EXCEPT !.process = <<>>, !.started = FALSE],
             drop(kill(os, self.process[1]), self.process),
             "Ok", <<"kill_ok">>)

\* stop taking the Child out of self.process (Option::take) before the kill:
\* when the kill fails the Child is dropped with the error return.
stop_takes_process(self, os, killOk) ==
    IF is_started(self) # "Ok" THEN Ret(self, os, is_started(self), <<>>)
    ELSE IF process_mut(self) # "Ok" THEN Ret(self, os, process_mut(self), <<>>)
    ELSE IF ~killOk THEN Ret([self EXCEPT !.process = <<>>],
                             drop(os, self.process),
                             "FailedToKill", <<"kill_err">>)
    ELSE Ret([self EXCEPT !.process = <<>>, !.started = FALSE],
             drop(kill(os, self.process[1]), self.process),
             "Ok", <<"kill_ok">>)

\* stop without the kill: the Child is only dropped.
stop_forgets_kill(self, os, killOk) ==
    IF is_started(self) # "Ok" THEN Ret(self, os, is_started(self), <<>>)
    ELSE IF process_mut(self) # "Ok" THEN Ret(self, os, process_mut(self), <<>>)
    ELSE Ret([self EXCEPT !.process = <<>>, !.started = FALSE],
             drop(os, self.process), "Ok", <<>>)

stop(self, os, killOk) ==
    IF is_started(self) # "Ok" THEN Ret(self, os, is_started(self), <<>>)
    ELSE IF process_mut(self) # "Ok" THEN Ret(self, os, process_mut(self), <<>>)
    ELSE IF ~killOk THEN Ret(self, os, "FailedToKill", <<"kill_err">>)
    ELSE Ret([self EXCEPT !.process = <<>>, !.started = FALSE],
             drop(kill(os, self.process[1]), self.process),
             "Ok", <<"kill_ok">>)

(***************************************************************************)
(* LSPServer::restart                                                      *)
(***************************************************************************)
\* restart with stop's result ignored (`let _ = self.stop();`).
restart_ignores_stop_error(self, os, killOk, spawnOk) ==
    LET r1 == stop(self, os, killOk)
        r2 == start(r1.self, r1.os, spawnOk)
    IN  [r2 EXCEPT !.io = r1.io \o r2.io]

restart(self, os, killOk, spawnOk) ==
    LET r1 == stop(self, os, killOk)
    IN  IF r1.res # "Ok" THEN r1
        ELSE LET r2 == start(r1.self, r1.os, spawnOk)
             IN  [r2 EXCEPT !.io = r1.io \o r2.io]

(***************************************************************************)
(* LSPServer::initialize_lsp.  write is the outcome of write_all ("ok",    *)
(* "err"); read the outcome of read_line: "line", "eof" (Ok(0)), "err"     *)
(* (unwrap panics) or "block" (the child never writes a line).  A frame    *)
(* is far shorter than PIPE_BUF, so a write to the pipe is all or nothing. *)
(***************************************************************************)
initialize_lsp(self, os, write, read) ==
    IF is_started(self) # "Ok" THEN Ret(self, os, is_started(self), <<>>)
    ELSE
    LET request == initialize_request(self.workspace)
        req_ser == frame(to_string(request))
    IN  IF process_mut(self) # "Ok" THEN Ret(self, os, process_mut(self), <<>>)
        ELSE
        LET pid == self.process[1] IN
        IF ~os[pid].piped THEN Ret(self, os, "Other_stdin_unavailable", <<>>)
        ELSE IF write # "ok"
        THEN Ret(self, os, "Other_failed_to_write", <<"write_err">>)
        ELSE
        LET os1 == [os EXCEPT ![pid].stdin = Append(@, req_ser)] IN
        CASE read = "line"  -> Ret(self, os1, "Ok", <<"write_ok", "read_line">>)
          [] read = "eof"   -> Ret(self, os1, "Ok", <<"write_ok", "read_eof">>)
          [] read = "err"   -> [Ret(self, os1, "Panic", <<"write_ok", "read_err">>)
                                  EXCEPT !.pc = "panicked"]
          [] read = "block" -> [Ret(self, os1, "Blocked", <<"write_ok", "read_block">>)
                                  EXCEPT !.pc = "blocked"]

(***************************************************************************)
(* The command-line dispatcher (toolchain/src/main.rs).                    *)
(***************************************************************************)
name_to_program(name) ==
    IF name = "example" THEN "Example" ELSE "Help"

program_to_fn(prog) ==
    CASE prog = "Example" -> "example::example"
      [] prog = "Help"    -> "help"

\* main has not run yet.
NotCalled == [pc |-> "start", fn |-> "none", args |-> <<>>]

\* main on the arguments a: the function it calls and the Vec it hands over.
\* With no argument at all first_arg defaults to "tc" and args.drain(0..1)
\* panics on the empty Vec.
main(a) ==
    LET first_arg == IF a = <<>> THEN "tc" ELSE Head(a)
    IN  IF first_arg = "tc"
        THEN IF a = <<>>
             THEN [pc |-> "panicked", fn |-> "none", args |-> <<>>]
             ELSE LET a1 == Tail(a)
                  IN  IF Len(a1) = 0
                      THEN [pc |-> "done", fn |-> "help", args |-> a1]
                      ELSE [pc |-> "done",
                            fn |-> program_to_fn(name_to_program(Head(a1))),
                            args |-> Tail(a1)]
        ELSE [pc |-> "done",
              fn |-> program_to_fn(name_to_program(first_arg)),
              args |-> a]

(***************************************************************************)
(* The state machine: one action per method of LSPServer.                  *)
(***************************************************************************)
NoCall == [op |-> "none", res |-> "none", io |-> <<>>]

Init ==
    /\ \E lang \in Language, ws \in Workspaces :
          LET s == new(lang, ws)
          IN  /\ language = s.language
              /\ workspace = s.workspace
              /\ started = s.started
              /\ process = s.process
    /\ children = <<>>
    /\ pc = "ready"
    /\ last = [op |-> "new", res |-> "Ok", io |-> <<>>]
    /\ prev = NoCall
    /\ argv = <<>>
    /\ called = NotCalled

\* The call `op` returned (or ended the thread with) r.
Returns(op, r) ==
    /\ language' = r.self.language
    /\ workspace' = r.self.workspace
    /\ started' = r.self.started
    /\ process' = r.self.process
    /\ children' = r.os
    /\ pc' = r.pc
    /\ last' = [op |-> op, res |-> r.res, io |-> r.io]
    /\ prev' = last
    /\ UNCHANGED <<argv, called>>

Start ==
    /\ pc = "ready"
    /\ \E spawnOk \in BOOLEAN :
          /\ spawnOk => Len(children) < MaxChildren
          /\ Returns("start", start(Self, children, spawnOk))

Stop ==
    /\ pc = "ready"
    /\ \E killOk \in BOOLEAN :
          Returns("stop", stop(Self, children, killOk))

Restart ==
    /\ pc = "ready"
    /\ \E killOk \in BOOLEAN, spawnOk \in BOOLEAN :
          /\ spawnOk => Len(children) < MaxChildren
          /\ Returns("restart", restart(Self, children, killOk, spawnOk))

InitializeLsp ==
    /\ pc = "ready"
    /\ \E write \in {"ok", "err"}, read \in {"line", "eof", "err", "block"} :
          /\ (write = "ok" /\ process # <<>>)
                => Len(children[process[1]].stdin) < MaxFrames
          /\ Returns("initialize_lsp", initialize_lsp(Self, children, write, read))

Next == Start \/ Stop \/ Restart \/ InitializeLsp

Spec == Init /\ [][Next]_vars

(***************************************************************************)
(* The dispatcher as a state machine: main runs once on the arguments the  *)
(* process was given.                                                      *)
(***************************************************************************)
Tokens == {"tc", "example", "help", "-v"}

ArgVectors == UNION { [1..n -> Tokens] : n \in 0..MaxArgs }

InitCli ==
    /\ argv \in ArgVectors
    /\ called = NotCalled
    /\ LET s == new("Rust", <<46>>)
       IN  /\ language = s.language
           /\ workspace = s.workspace
           /\ started = s.started
           /\ process = s.process
    /\ children = <<>>
    /\ pc = "ready"
    /\ last = NoCall
    /\ prev = NoCall

Main ==
    /\ called.pc = "start"
    /\ called' = main(argv)
    /\ UNCHANGED <<language, workspace, started, process, children, pc, last,
                   prev, argv>>

NextCli == Main

SpecCli == InitCli /\ [][NextCli]_vars

(***************************************************************************)
(* Properties.                                                             *)
(***************************************************************************)
Range(s) == { s[i] : i \in DOMAIN s }

Pids == 1..Len(children)

LifecycleErrors == {"AlreadyStarted", "NotRunning"}

\* C1: for a server that is not started, start() returns Ok exactly when the
\* spawn succeeds (one more child exists); the server is then started and
\* holds exactly the new, running child, the older children being untouched;
\* and a stop() that follows directly attempts the kill and returns Ok
\* exactly when the kill succeeds.
C1_StartRunsSpawnedChild ==
    [][ /\ (last'.op = "start" /\ ~started) =>
              /\ (last'.res = "Ok") <=> (Len(children') = Len(children) + 1)
              /\ (last'.res = "Ok") <=> (last'.io = <<"spawn_ok">>)
              /\ (last'.res = "Ok") =>
                    /\ started'
                    /\ process' = <<Len(children')>>
                    /\ children'[Len(children')].state = "running"
                    /\ children'[Len(children')].piped
                    /\ \A c \in Pids : children'[c] = children[c]
        /\ (last.op = "start" /\ last.res = "Ok" /\ last'.op = "stop") =>
              /\ last'.io \in {<<"kill_ok">>, <<"kill_err">>}
              /\ (last'.res = "Ok") <=> (last'.io = <<"kill_ok">>)
      ]_vars

\* C1's case: a start that spawned, then a stop that killed and returned Ok.
C1_Witness ==
    /\ prev = [op |-> "start", res |-> "Ok", io |-> <<"spawn_ok">>]
    /\ last = [op |-> "stop", res |-> "Ok", io |-> <<"kill_ok">>]
    /\ ~started

\* C2: whenever the server is started, start() returns AlreadyStarted, makes
\* no spawn, and leaves the server and every child as they were.
C2_StartRejectedWhenStarted ==
    [][ (last'.op = "start" /\ started) =>
              /\ last'.res = "AlreadyStarted"
              /\ last'.io = <<>>
              /\ children' = children
              /\ process' = process
              /\ started'
      ]_vars

\* C2's case: start() was called on a started server holding a child.
C2_Witness ==
    /\ last.op = "start"
    /\ last.res = "AlreadyStarted"
    /\ started
    /\ process # <<>>
    /\ prev.op \in {"start", "restart", "initialize_lsp"}

\* C3: whenever the server is not started, stop() returns NotRunning without
\* a kill; in particular the stop() directly after a stop() that returned Ok
\* returns NotRunning.
C3_StopRejectedWhenNotRunning ==
    [][ /\ (last'.op = "stop" /\ ~started) =>
              /\ last'.res = "NotRunning"
              /\ last'.io = <<>>
        /\ (last.op = "stop" /\ last.res = "Ok" /\ last'.op = "stop") =>
              last'.res = "NotRunning"
      ]_vars

\* C3's case: stop() returned NotRunning directly after a successful stop().
C3_Witness ==
    /\ prev = [op |-> "stop", res |-> "Ok", io |-> <<"kill_ok">>]
    /\ last = [op |-> "stop", res |-> "NotRunning", io |-> <<>>]

\* C4 (as claimed): whatever the state before, a restart() in which neither
\* the kill nor the spawn failed returns Ok and leaves the server started on
\* a child just spawned, running, with nothing yet written to it.
C4_RestartAlwaysFresh ==
    (/\ last.op = "restart"
     /\ "kill_err" \notin Range(last.io)
     /\ "spawn_err" \notin Range(last.io)) =>
        /\ last.res = "Ok"
        /\ started
        /\ process = <<Len(children)>>
        /\ children[Len(children)].state = "running"
        /\ children[Len(children)].stdin = <<>>

\* C5 (as claimed): a restart() whose kill failed does not return the stop
\* failure; it goes on to the spawn of start.
C5_RestartEscalates ==
    (/\ last.op = "restart"
     /\ last.io # <<>>
     /\ last.io[1] = "kill_err") =>
        /\ last.res # "FailedToKill"
        /\ \E i \in DOMAIN last.io : last.io[i] \in {"spawn_ok", "spawn_err"}

\* C6: a start() whose spawn failed returns SpawnFailed, creates no child and
\* leaves the server not started with no process handle; the start() made
\* directly after it is not rejected with AlreadyStarted.
C6_FailedSpawnLeavesNothing ==
    [][ /\ (last'.op = "start" /\ last'.io = <<"spawn_err">>) =>
              /\ last'.res = "SpawnFailed"
              /\ ~started'
              /\ process' = <<>>
              /\ children' = children
        /\ (last.op = "start" /\ last.res = "SpawnFailed" /\ last'.op = "start") =>
              last'.res # "AlreadyStarted"
      ]_vars

\* C6's case: a start() whose spawn failed, then a start() that was accepted.
C6_Witness ==
    /\ prev = [op |-> "start", res |-> "SpawnFailed", io |-> <<"spawn_err">>]
    /\ last = [op |-> "start", res |-> "Ok", io |-> <<"spawn_ok">>]

\* C7: a call that returns AlreadyStarted or NotRunning makes no system call
\* and leaves the started flag, the process handle, the language, the
\* workspace and every child (its stdin included) as they were.
C7_LifecycleErrorChangesNothing ==
    [][ (last'.res \in LifecycleErrors) =>
              /\ last'.io = <<>>
              /\ UNCHANGED <<language, workspace, started, process, children>>
      ]_vars

\* C7's case: with children already spawned, initialize_lsp and then restart
\* each returned NotRunning.
C7_Witness ==
    /\ prev = [op |-> "initialize_lsp", res |-> "NotRunning", io |-> <<>>]
    /\ last = [op |-> "restart", res |-> "NotRunning", io |-> <<>>]
    /\ children # <<>>

\* C8 (as claimed): every child the server no longer holds has been reaped
\* and its pipes are closed.
C8_ReleasedChildIsReaped ==
    \A c \in Pids :
        (process # <<c>>) =>
            /\ children[c].state = "reaped"
            /\ ~children[c].piped

\* C9 (as claimed): the initialize_lsp made directly after an initialize_lsp
\* that returned Ok is rejected with a lifecycle error and writes nothing.
C9_SecondInitializeRejected ==
    (/\ prev.op = "initialize_lsp"
     /\ prev.res = "Ok"
     /\ last.op = "initialize_lsp") =>
        /\ last.res \in LifecycleErrors
        /\ last.io = <<>>

\* Whether the bytes `pat` occur in `buf`.
Contains(buf, pat) ==
    \E i \in 1..(Len(buf) - Len(pat) + 1) :
        SubSeq(buf, i, i + Len(pat) - 1) = pat

\* A buffer that carries the `initialized` notification holds
\* "method":"initialized".
IsInitializedNotification(buf) ==
    Contains(buf, <<34, 109, 101, 116, 104, 111, 100, 34, 58, 34, 105, 110,
                    105, 116, 105, 97, 108, 105, 122, 101, 100, 34>>)

\* C10 (as claimed): after an initialize_lsp that returned Ok, the child's
\* stdin holds the `initialized` notification exactly once, and not as the
\* first thing written.
C10_InitializedSentOnce ==
    (last.op = "initialize_lsp" /\ last.res = "Ok") =>
        LET sent == children[process[1]].stdin
            at   == { i \in DOMAIN sent : IsInitializedNotification(sent[i]) }
        IN  /\ Cardinality(at) = 1
            /\ \A i \in at : i > 1

(***************************************************************************)
(* Reading a written buffer back as a frame.                               *)
(***************************************************************************)
\* Every buffer written to the stdin of some child.
Written == UNION { Range(children[c].stdin) : c \in Pids }

\* Where the first CR LF of buf starts (0: there is none).
FirstCRLF(buf) ==
    LET at == { i \in 1..(Len(buf) - 1) : buf[i] = 13 /\ buf[i + 1] = 10 }
    IN  IF at = {} THEN 0 ELSE CHOOSE i \in at : \A j \in at : i <= j

Digits == 48..57

\* C11 (as claimed): every buffer written to a child is the header line
\* `Content-Length: <digits>` ended by CR LF, then an empty line (a second
\* CR LF), then the body.
C11_HeaderThenEmptyLine ==
    \A buf \in Written :
        LET e == FirstCRLF(buf)
            p == Len(ContentLengthPrefix)
        IN  /\ e > p + 1
            /\ SubSeq(buf, 1, p) = ContentLengthPrefix
            /\ \A i \in (p + 1)..(e - 1) : buf[i] \in Digits
            /\ Len(buf) >= e + 3
            /\ SubSeq(buf, e + 2, e + 3) = CRLF

\* The number a sequence of decimal digits writes.
RECURSIVE from_decimal(_)
from_decimal(d) ==
    IF d = <<>> THEN 0
    ELSE 10 * from_decimal(SubSeq(d, 1, Len(d) - 1)) + (d[Len(d)] - 48)

\* The bytes of buf after its first CR LF: where the code puts the body.
BodyOf(buf) == SubSeq(buf, FirstCRLF(buf) + 2, Len(buf))

\* The digits of buf's Content-Length header line.
LengthDigitsOf(buf) ==
    SubSeq(buf, Len(ContentLengthPrefix) + 1, FirstCRLF(buf) - 1)

\* C12: every buffer written to a child starts with the line
\* `Content-Length: <digits>` CR LF, and the number the digits write is the
\* number of bytes that follow the line, which are a JSON object.
C12_ContentLengthIsBodyLength ==
    \A buf \in Written :
        /\ FirstCRLF(buf) > Len(ContentLengthPrefix) + 1
        /\ SubSeq(buf, 1, Len(ContentLengthPrefix)) = ContentLengthPrefix
        /\ \A i \in DOMAIN LengthDigitsOf(buf) : LengthDigitsOf(buf)[i] \in Digits
        /\ from_decimal(LengthDigitsOf(buf)) = Len(BodyOf(buf))
        /\ Head(BodyOf(buf)) = 123
        /\ BodyOf(buf)[Len(BodyOf(buf))] = 125

\* C12's case: a frame was written whose body is longer than 99 bytes and
\* holds a two-byte char and an escaped quote.
C12_Witness ==
    \E buf \in Written :
        /\ Len(BodyOf(buf)) > 99
        /\ Len(LengthDigitsOf(buf)) = 3
        /\ Contains(BodyOf(buf), <<195, 169>>)
        /\ Contains(BodyOf(buf), <<92, 34>>)

\* The executable the claim gives each language.
ClaimedProgram(lang) ==
    CASE lang \in {"C", "Cpp"} -> "clangd"
      [] lang = "Rust"         -> "rust-analyzer"
      [] lang = "Python"       -> "pylsp"

\* C13 (as claimed): every child start spawned runs clangd for C and C++,
\* rust-analyzer for Rust and pylsp for Python.
C13_ProgramOfLanguage ==
    \A c \in Pids : children[c].program = ClaimedProgram(language)

\* C14 (as claimed): with the token "tc" stripped from the front when it is
\* there, the first token left names the function main calls and exactly
\* the tokens after it are handed over.
C14_ForwardsAfterSubcommand ==
    (called.pc = "done") =>
        LET rest == IF argv # <<>> /\ Head(argv) = "tc" THEN Tail(argv) ELSE argv
        IN  (rest # <<>>) =>
                /\ called.fn = program_to_fn(name_to_program(Head(rest)))
                /\ called.args = Tail(rest)

\* C15 (as claimed): an initialize_lsp whose write failed returns an error
\* and leaves the server not running: not started, holding no process.
C15_WriteErrorEndsSession ==
    (last.op = "initialize_lsp" /\ "write_err" \in Range(last.io)) =>
        /\ last.res # "Ok"
        /\ ~started
        /\ process = <<>>

\* C16 (as claimed): an initialize_lsp that wrote its request and then read
\* end of file from the child does not return Ok.
C16_EofFailsInitialize ==
    (last.op = "initialize_lsp" /\ "read_eof" \in Range(last.io)) =>
        last.res # "Ok"

\* C17: in every reachable state the server is started exactly when it
\* holds a process, the process it holds is one it spawned, and no call has
\* returned InvalidProcess.
C17_StartedIffProcess ==
    /\ started <=> (process # <<>>)
    /\ process # <<>> => process[1] \in Pids
    /\ last.res # "InvalidProcess"
    /\ prev.res # "InvalidProcess"

\* C17's case: directly after a failed kill, on the second child the server
\* spawned, initialize_lsp passed the started check and found its process.
C17_Witness ==
    /\ prev.res = "FailedToKill"
    /\ last.op = "initialize_lsp"
    /\ last.res = "Ok"
    /\ started
    /\ process = <<2>>

\* C18: a stop() whose kill failed returns FailedToKill and leaves the
\* server and its children as they were, still started on the same process;
\* the stop() made directly after it tries the kill again and the start()
\* made directly after it returns AlreadyStarted.
C18_FailedKillChangesNothing ==
    [][ /\ (last'.op = "stop" /\ last'.io = <<"kill_err">>) =>
              /\ last'.res = "FailedToKill"
              /\ started'
              /\ process' # <<>>
              /\ UNCHANGED <<language, workspace, started, process, children>>
        /\ (last.op = "stop" /\ last.res = "FailedToKill" /\ last'.op = "stop") =>
              last'.io \in {<<"kill_ok">>, <<"kill_err">>}
        /\ (last.op = "stop" /\ last.res = "FailedToKill" /\ last'.op = "start") =>
              last'.res = "AlreadyStarted"
      ]_vars

\* C18's case: a stop() whose kill failed, then a stop() that succeeded.
C18_Witness ==
    /\ prev = [op |-> "stop", res |-> "FailedToKill", io |-> <<"kill_err">>]
    /\ last = [op |-> "stop", res |-> "Ok", io |-> <<"kill_ok">>]

\* C19: a restart() whose kill succeeded and whose spawn failed returns
\* SpawnFailed and leaves the server not started with no process, the old
\* child killed and no child added; a restart() whose kill failed makes no
\* spawn, returns FailedToKill and leaves the server on its old child.
C19_RestartNotAtomic ==
    [][ (last'.op = "restart" /\ started) =>
              /\ last'.io # <<>>
              /\ (last'.io[1] = "kill_ok" /\ last'.res # "Ok") =>
                    /\ last'.io = <<"kill_ok", "spawn_err">>
                    /\ last'.res = "SpawnFailed"
                    /\ ~started'
                    /\ process' = <<>>
                    /\ Len(children') = Len(children)
                    /\ children'[process[1]].state = "zombie"
              /\ (last'.io[1] = "kill_err") =>
                    /\ last'.io = <<"kill_err">>
                    /\ last'.res = "FailedToKill"
                    /\ UNCHANGED <<started, process, children>>
      ]_vars

\* C19's case: a restart() whose kill failed, then a restart() whose kill
\* succeeded and whose spawn failed.
C19_Witness ==
    /\ prev = [op |-> "restart", res |-> "FailedToKill", io |-> <<"kill_err">>]
    /\ last = [op |-> "restart", res |-> "SpawnFailed",
               io |-> <<"kill_ok", "spawn_err">>]
    /\ ~started

\* The children that have not been sent a kill.
Unkilled == { c \in Pids : children[c].state = "running" }

\* C20: at every instant at most one child has not been sent a kill, and it
\* is the child the server holds.
C20_OneUnkilledChild ==
    /\ Cardinality(Unkilled) <= 1
    /\ \A c \in Unkilled : process = <<c>>

\* C20's case: a second child was spawned after the first was killed.
C20_Witness ==
    /\ Len(children) >= 2
    /\ children[1].state = "zombie"
    /\ Unkilled = {2}

====
